---------------------------- MODULE Spec2Model ----------------------------
(***************************************************************************)
(* Model of the LaTeX -> PDF/DOCX converter (texpro.py and                 *)
(* latex_converter_app.py): run_command, extract_latex_error,              *)
(* compile_latex, convert_directory, the upload batch loop and the         *)
(* configuration tab.                                                      *)
(*                                                                         *)
(* Texts (tool output, logs, summaries) are sequences of characters; a     *)
(* fixed literal of the program that holds neither "! " nor a line break   *)
(* is kept as one element.  File names are sequences of dot-separated      *)
(* components, with the directory part the caller typed in front.          *)
(***************************************************************************)
EXTENDS Integers, Sequences, FiniteSets, TLC

\* Bounds of the model.
MaxLogLen == 4
MaxDocs == 2

NL == "\n"

\* ------------------------------------------------------------------ texts

\* The characters log texts are drawn from.
LogChars == {"!", " ", NL, "e"}

RECURSIVE TextsUpTo(_)
TextsUpTo(n) ==
    IF n = 0 THEN {<<>>}
    ELSE LET shorter == TextsUpTo(n - 1)
         IN  shorter \cup {Append(t, c) : t \in {s \in shorter : Len(s) = n - 1}, c \in LogChars}

LogTexts == TextsUpTo(MaxLogLen)

\* The two fixed texts of extract_latex_error (their leading symbols left
\* out).
NoErrorFound == <<"No critical LaTeX error found.">>

ErrorPrefix == <<"**Error:** ">>

\* Positions i where the pattern "! (.*?)\n" can match: "! " at i, and a line
\* break somewhere after it ("." matches anything but a line break, so the
\* lazy group ends at the first line break).
MatchStarts(text) ==
    {i \in 1..Len(text) :
        /\ i + 1 <= Len(text)
        /\ text[i] = "!"
        /\ text[i + 1] = " "
        /\ \E j \in (i + 2)..Len(text) : text[j] = NL}

Min(S) == CHOOSE x \in S : \A y \in S : x <= y

\* re.search: the leftmost match; group(1) is what lies between "! " and
\* the first line break after it.
SearchBang(text) ==
    LET starts == MatchStarts(text)
    IN  IF starts = {} THEN <<FALSE, <<>>>>
        ELSE LET i == Min(starts)
                 j == Min({k \in (i + 2)..Len(text) : text[k] = NL})
             IN  <<TRUE, SubSeq(text, i + 2, j - 1)>>

extract_latex_error(log_text) ==
    LET match == SearchBang(log_text)
    IN  IF match[1] THEN ErrorPrefix \o match[2] ELSE NoErrorFound

\* ------------------------------------------------------------- file names

\* A logical name: the directory part typed before the file name ("" for a
\* bare file name) and the file name's dot-separated components.
TexName == <<"a", "tex">>

SingleNames ==
    {[dir |-> "", comps |-> TexName],
     [dir |-> "..", comps |-> TexName],
     [dir |-> "sub", comps |-> TexName],
     [dir |-> "", comps |-> <<"a">>]}

\* Names of uploaded files and of files found by glob("*.tex").
BatchNames == {<<"a", "tex">>, <<"a", "tex", "tex">>, <<"a", "pdf", "tex">>}

\* Path(tmp) / filename: where the path leads.
TexLoc(dir) ==
    CASE dir = "" -> "tmp"
      [] dir = ".." -> "parent"
      [] OTHER -> "missing"

\* Path.with_suffix: the last suffix replaced, or the suffix added to a name
\* that has none.
with_suffix(comps, ext) ==
    IF Len(comps) >= 2 THEN Append(SubSeq(comps, 1, Len(comps) - 1), ext)
    ELSE Append(comps, ext)

\* Path.stem: the name without its last suffix.
stem(comps) ==
    IF Len(comps) >= 2 THEN SubSeq(comps, 1, Len(comps) - 1) ELSE comps

\* str.replace(".tex", new): every ".tex" of the name, not only the last.
RECURSIVE replace_tex(_, _)
replace_tex(comps, new) ==
    IF Len(comps) <= 1 THEN comps
    ELSE LET last == comps[Len(comps)]
             front == replace_tex(SubSeq(comps, 1, Len(comps) - 1), new)
         IN  IF last = "tex" THEN front \o new ELSE Append(front, last)

\* ------------------------------------------------------------ run_command

TimeoutNotice == <<"Timeout expired.">>

ExceptionNotice(e) == <<"Exception: ", e>>

CleanOut == <<"e", NL>>

ErrOut == <<"!", " ", "a", NL>>

ErrErr == <<"!", " ", "b", NL>>

\* What subprocess.run can do: the process exits with a status code and its
\* captured output, runs past the timeout, or cannot be launched.
ProcOutcomes ==
    {[kind |-> "exit", code |-> 0, out |-> CleanOut, err |-> <<>>],
     [kind |-> "exit", code |-> 0, out |-> ErrOut, err |-> ErrErr],
     [kind |-> "exit", code |-> 1, out |-> ErrOut, err |-> ErrErr],
     [kind |-> "exit", code |-> 1, out |-> CleanOut, err |-> <<>>],
     [kind |-> "timeout"],
     [kind |-> "oserror", e |-> "FileNotFoundError"]}

\* run_command without its last except clause: a launch failure propagates.
run_command_uncaught(proc) ==
    CASE proc.kind = "exit" ->
            [raised |-> FALSE, ok |-> proc.code = 0, out |-> proc.out, err |-> proc.err]
      [] proc.kind = "timeout" ->
            [raised |-> FALSE, ok |-> FALSE, out |-> <<>>, err |-> TimeoutNotice]
      [] OTHER ->
            [raised |-> TRUE, ok |-> FALSE, out |-> <<>>, err |-> <<>>]

run_command(proc) ==
    CASE proc.kind = "exit" ->
            [raised |-> FALSE, ok |-> proc.code = 0, out |-> proc.out, err |-> proc.err]
      [] proc.kind = "timeout" ->
            [raised |-> FALSE, ok |-> FALSE, out |-> <<>>, err |-> TimeoutNotice]
      [] OTHER ->
            [raised |-> FALSE, ok |-> FALSE, out |-> <<>>, err |-> ExceptionNotice(proc.e)]

\* ---------------------------------------------------------- configuration

DefaultFlags == <<"-interaction=nonstopmode", " ", "-halt-on-error">>

\* st.session_state as the script's first lines leave it.
DefaultConfig ==
    [miktex_path |-> "pdflatex.exe",
     pandoc_path |-> "pandoc.exe",
     pdflatex_flags |-> DefaultFlags]

\* What the three text inputs of the configuration tab can hold.
Configs ==
    [miktex_path : {"pdflatex.exe", "xelatex.exe"},
     pandoc_path : {"pandoc.exe", "pandoc2.exe"},
     pdflatex_flags : {DefaultFlags, <<>>}]

\* str.split(): the words between the blanks.
split(flags) == SelectSeq(flags, LAMBDA c : c # " ")

cmd_pdf(cfg, name) == <<cfg.miktex_path>> \o split(cfg.pdflatex_flags) \o <<name>>

\* The conversion command with the path the program starts with, whatever
\* the session holds.
cmd_docx_fixed_path(cfg, name) ==
    <<DefaultConfig.pandoc_path, name, "-o", with_suffix(name.comps, "docx")>>

cmd_docx(cfg, name) ==
    <<cfg.pandoc_path, name, "-o", with_suffix(name.comps, "docx")>>

\* ------------------------------------------------------------------ state

VARIABLES
    config,      \* st.session_state: miktex_path, pandoc_path, pdflatex_flags
    ui,          \* what the script is at: "idle", "single", "batch", "done"
    cpc,         \* compile_latex: "none", "write", "pdf", "docx", "exit", "returned", "raised"
    filename,    \* compile_latex's filename
    make_pdf,    \* compile_latex's make_pdf
    make_docx,   \* compile_latex's make_docx
    results,     \* compile_latex's results dictionary
    exc,         \* the exception leaving compile_latex: "none", "write", "run", "read"
    tmp,         \* whether the TemporaryDirectory exists
    fs,          \* the files in the scratch directory and beside it
    ran,         \* the tool runs of this call, in order
    cfgAtStart,  \* the configuration when this call began
    cfgReads,    \* the session keys this call read, each with the runs made before
    batch,       \* the batch conversion: its input, its archive, how it ended
    log_text,    \* extract_latex_error's argument
    summary      \* extract_latex_error's result

callVars == <<cpc, filename, make_pdf, make_docx, results, exc, tmp, ran, cfgAtStart, cfgReads>>

extractVars == <<log_text, summary>>

vars == <<config, ui, callVars, fs, batch, extractVars>>

NoName == [dir |-> "", comps |-> <<>>]

NoResults == [pdf |-> "None", docx |-> "None", log |-> <<>>, error_summary |-> <<>>]

NoBatch ==
    [mode |-> "none", docs |-> <<>>, mp |-> FALSE, md |-> FALSE, idx |-> 0,
     zout |-> "none", archive |-> <<>>, res |-> <<>>, outcome |-> "none"]

\* The contents a tool can leave in its output file: no file, an empty file,
\* a file with bytes in it.
FileKinds == {"none", "empty", "data"}

NoCall ==
    /\ cpc = "none"
    /\ filename = NoName
    /\ make_pdf = FALSE
    /\ make_docx = FALSE
    /\ results = NoResults
    /\ exc = "none"
    /\ tmp = FALSE
    /\ ran = <<>>
    /\ cfgAtStart = DefaultConfig
    /\ cfgReads = <<>>

Init ==
    /\ config = DefaultConfig
    /\ ui = "idle"
    /\ NoCall
    /\ fs = {}
    /\ batch = NoBatch
    /\ log_text = <<>>
    /\ summary = <<>>

\* ---------------------------------------------------------- compile_latex

\* results = {...}; with tempfile.TemporaryDirectory() as tmp:
CompileBegin(name, mp, md) ==
    /\ cpc' = "write"
    /\ filename' = name
    /\ make_pdf' = mp
    /\ make_docx' = md
    /\ results' = NoResults
    /\ exc' = "none"
    /\ tmp' = TRUE
    /\ ran' = <<>>
    /\ cfgAtStart' = config
    /\ cfgReads' = <<>>

\* An exception leaves the with block: the scratch directory is removed on
\* the way out.
Raise(kind, files) ==
    /\ cpc' = "raised"
    /\ exc' = kind
    /\ tmp' = FALSE
    /\ fs' = {f \in files : f.loc # "tmp"}

Put(files, file) ==
    {f \in files : ~(f.loc = file.loc /\ f.name = file.name)} \cup {file}

Found(files, loc, name) == {f \in files : f.loc = loc /\ f.name = name}

LogBlock(title, out, err) == <<NL, title, NL>> \o out \o <<NL>> \o err \o <<NL>>

\* tex_path.write_text(tex_code): the file lands where Path(tmp) / filename
\* leads, or the write fails (no such directory, or the system refuses).
CompileWrite ==
    /\ cpc = "write"
    /\ \E wrote \in BOOLEAN :
          /\ wrote => TexLoc(filename.dir) # "missing"
          /\ IF wrote
             THEN /\ fs' = Put(fs, [loc |-> TexLoc(filename.dir), name |-> filename.comps,
                                    data |-> "src"])
                  /\ cpc' = "pdf"
                  /\ UNCHANGED <<exc, tmp>>
             ELSE Raise("write", fs)
    /\ UNCHANGED <<config, ui, filename, make_pdf, make_docx, results, ran, cfgAtStart,
                   cfgReads, batch, extractVars>>

\* One phase's tool run: the process outcome, the file the tool leaves in
\* its working directory (the scratch directory), and whether the output
\* file the program looks for can be read.
PhaseInputs ==
    {in \in [proc : ProcOutcomes, made : FileKinds, readable : BOOLEAN] :
        /\ in.made # "none" => in.proc.kind = "exit"
        /\ ~in.readable =>
              /\ in.proc.kind = "exit"
              /\ in.proc.code = 0}

\* if ok and pdf_path.exists(): the same test guards the .docx read.
\* The test with the exit status left out.
OutputReadyAnyExit(r, found) == found # {}

OutputReady(r, found) == r.ok /\ found # {}

\* The session keys a phase reads before its run, as cfgReads records them.
ReadKeys(keys) == [i \in 1..Len(keys) |-> [key |-> keys[i], runsBefore |-> Len(ran)]]

\* if make_pdf: ... (texpro.py lines 63-72)
CompilePdf ==
    /\ cpc = "pdf"
    /\ IF ~make_pdf
       THEN /\ cpc' = "docx"
            /\ UNCHANGED <<results, exc, tmp, fs, ran, cfgReads>>
       ELSE \E in \in PhaseInputs :
            LET r == run_command(in.proc)
                pdf_name == with_suffix(filename.comps, "pdf")
                fs1 == IF in.made = "none" THEN fs
                       ELSE Put(fs, [loc |-> "tmp", name |-> pdf_name, data |-> in.made])
                found == Found(fs1, TexLoc(filename.dir), pdf_name)
                log1 == results.log \o LogBlock("--- pdflatex log ---", r.out, r.err)
            IN  /\ ran' = Append(ran, [tool |-> "pdflatex",
                                       cmd |-> cmd_pdf(config, filename),
                                       proc |-> in.proc, res |-> r,
                                       exists |-> found # {},
                                       readable |-> in.readable])
                /\ cfgReads' = cfgReads \o ReadKeys(<<"pdflatex_flags", "miktex_path">>)
                /\ IF r.raised
                   THEN /\ Raise("run", fs1)
                        /\ UNCHANGED results
                   ELSE IF OutputReady(r, found)
                   THEN IF in.readable
                        THEN /\ results' = [results EXCEPT
                                               !.log = log1,
                                               !.pdf = (CHOOSE f \in found : TRUE).data]
                             /\ cpc' = "docx"
                             /\ fs' = fs1
                             /\ UNCHANGED <<exc, tmp>>
                        ELSE /\ Raise("read", fs1)
                             /\ results' = [results EXCEPT !.log = log1]
                   ELSE /\ results' = [results EXCEPT
                                          !.log = log1,
                                          !.error_summary = extract_latex_error(r.out \o r.err)]
                        /\ cpc' = "docx"
                        /\ fs' = fs1
                        /\ UNCHANGED <<exc, tmp>>
    /\ UNCHANGED <<config, ui, filename, make_pdf, make_docx, cfgAtStart, batch, extractVars>>

\* if make_docx: ... (texpro.py lines 75-81)
CompileDocx ==
    /\ cpc = "docx"
    /\ IF ~make_docx
       THEN /\ cpc' = "exit"
            /\ UNCHANGED <<results, exc, tmp, fs, ran, cfgReads>>
       ELSE \E in \in PhaseInputs :
            LET r == run_command(in.proc)
                docx_name == with_suffix(filename.comps, "docx")
                fs1 == IF in.made = "none" THEN fs
                       ELSE Put(fs, [loc |-> "tmp", name |-> docx_name, data |-> in.made])
                found == Found(fs1, TexLoc(filename.dir), docx_name)
                log1 == results.log \o LogBlock("--- pandoc log ---", r.out, r.err)
            IN  /\ ran' = Append(ran, [tool |-> "pandoc",
                                       cmd |-> cmd_docx(config, filename),
                                       proc |-> in.proc, res |-> r,
                                       exists |-> found # {},
                                       readable |-> in.readable])
                /\ cfgReads' = cfgReads \o ReadKeys(<<"pandoc_path">>)
                /\ IF r.raised
                   THEN /\ Raise("run", fs1)
                        /\ UNCHANGED results
                   ELSE IF OutputReady(r, found)
                   THEN IF in.readable
                        THEN /\ results' = [results EXCEPT
                                               !.log = log1,
                                               !.docx = (CHOOSE f \in found : TRUE).data]
                             /\ cpc' = "exit"
                             /\ fs' = fs1
                             /\ UNCHANGED <<exc, tmp>>
                        ELSE /\ Raise("read", fs1)
                             /\ results' = [results EXCEPT !.log = log1]
                   ELSE /\ results' = [results EXCEPT !.log = log1]
                        /\ cpc' = "exit"
                        /\ fs' = fs1
                        /\ UNCHANGED <<exc, tmp>>
    /\ UNCHANGED <<config, ui, filename, make_pdf, make_docx, cfgAtStart, batch, extractVars>>

\* The with block ends and the function returns: the scratch directory and
\* what is in it are removed.
CompileReturn ==
    /\ cpc = "exit"
    /\ cpc' = "returned"
    /\ tmp' = FALSE
    /\ fs' = {f \in fs : f.loc # "tmp"}
    /\ UNCHANGED <<config, ui, filename, make_pdf, make_docx, results, exc, ran, cfgAtStart,
                   cfgReads, batch, extractVars>>

\* The caller is done with the call.
ForgetCall ==
    /\ cpc' = "none"
    /\ filename' = NoName
    /\ make_pdf' = FALSE
    /\ make_docx' = FALSE
    /\ results' = NoResults
    /\ exc' = "none"
    /\ tmp' = FALSE
    /\ ran' = <<>>
    /\ cfgAtStart' = DefaultConfig
    /\ cfgReads' = <<>>

\* ------------------------------------------------- the script's three tabs

\* The configuration tab's assignments are the last lines of the script:
\* they run when tabs 1 and 2 are through, never inside a call.
ConfigWritable == ui = "idle"

\* st.session_state.miktex_path = st.text_input(...), and the two others.
ConfigEdit ==
    /\ ConfigWritable
    /\ \E cfg \in Configs : config' = cfg
    /\ UNCHANGED <<ui, callVars, fs, batch, extractVars>>

\* Tab 1: compile_latex(tex_code, filename) on the Convert button.  The two
\* flags are compile_latex's parameters: texpro.py leaves them at their
\* defaults, latex_converter_app.py passes which tools it found.
ConvertClick ==
    /\ ui = "idle"
    /\ ui' = "single"
    /\ \E name \in SingleNames, mp \in BOOLEAN, md \in BOOLEAN : CompileBegin(name, mp, md)
    /\ UNCHANGED <<config, fs, batch, extractVars>>

\* Tab 1 shows the result (or the exception) and the script goes on.
ShowResult ==
    /\ ui = "single"
    /\ cpc \in {"returned", "raised"}
    /\ ui' = "idle"
    /\ ForgetCall
    /\ UNCHANGED <<config, fs, batch, extractVars>>

\* ------------------------------------------------------- batch conversion

RECURSIVE ListsUpTo(_, _)
ListsUpTo(S, n) ==
    IF n = 0 THEN {<<>>}
    ELSE LET shorter == ListsUpTo(S, n - 1)
         IN  shorter \cup {Append(l, x) : l \in {s \in shorter : Len(s) = n - 1}, x \in S}

\* The uploader hands over any files, two of the same name included.
UploadLists == ListsUpTo(BatchNames, MaxDocs)

\* glob("*.tex") over one directory: no name twice.
DirectoryLists ==
    {l \in UploadLists : \A i, j \in 1..Len(l) : i # j => l[i] # l[j]}

\* if not tex_files: raise FileNotFoundError(...) -- the check left out.
EmptyInputIgnored(tex_files) == FALSE

\* if not tex_files: raise FileNotFoundError(...)
EmptyInput(tex_files) == tex_files = <<>>

\* Python's truth of a result field: None and b"" are both false.
Truthy(field) == field = "data"

\* ZipFile.writestr: the entry is added at the end, also when the archive
\* already holds an entry of that name.  An entry keeps its name, the
\* document whose result it holds and what was written ("log" for the log
\* text).
writestr(archive, name, doc, data) ==
    Append(archive, [name |-> name, doc |-> doc, data |-> data])

\* The three entry names of a document.
EntryName(mode, comps, suffix) ==
    IF mode = "upload" THEN replace_tex(comps, suffix) ELSE stem(comps) \o suffix

OpenBatch(mode, docs, mp, md) ==
    [mode |-> mode, docs |-> docs, mp |-> mp, md |-> md, idx |-> 1, zout |-> "open",
     archive |-> <<>>, res |-> <<>>, outcome |-> "none"]

\* Tab 2 of texpro.py: if uploaded_files: ... with zipfile.ZipFile(...) as zout:
StartUpload ==
    /\ ui = "idle"
    /\ \E docs \in UploadLists :
          IF docs = <<>>
          THEN /\ batch' = [NoBatch EXCEPT !.mode = "upload", !.outcome = "skipped"]
               /\ ui' = "done"
          ELSE /\ batch' = OpenBatch("upload", docs, TRUE, TRUE)
               /\ ui' = "batch"
    /\ UNCHANGED <<config, callVars, fs, extractVars>>

\* convert_directory(path, make_pdf, make_docx) up to its with statement.
StartDirectory ==
    /\ ui = "idle"
    /\ \E docs \in DirectoryLists, mp \in BOOLEAN, md \in BOOLEAN :
          IF EmptyInput(docs)
          THEN /\ batch' = [NoBatch EXCEPT !.mode = "directory", !.mp = mp, !.md = md,
                                           !.outcome = "FileNotFoundError"]
               /\ ui' = "done"
          ELSE /\ batch' = OpenBatch("directory", docs, mp, md)
               /\ ui' = "batch"
    /\ UNCHANGED <<config, callVars, fs, extractVars>>

\* for tex_file in tex_files: res = compile_latex(code, tex_file.name, ...)
BatchCompile ==
    /\ ui = "batch"
    /\ cpc = "none"
    /\ batch.idx <= Len(batch.docs)
    /\ CompileBegin([dir |-> "", comps |-> batch.docs[batch.idx]], batch.mp, batch.md)
    /\ UNCHANGED <<config, ui, fs, batch, extractVars>>

\* if res["pdf"]: zout.writestr(...); if res["docx"]: ...; zout.writestr(log)
BatchStore ==
    /\ ui = "batch"
    /\ cpc = "returned"
    /\ LET i == batch.idx
           name == batch.docs[i]
           a1 == IF Truthy(results.pdf)
                 THEN writestr(batch.archive, EntryName(batch.mode, name, <<"pdf">>), i,
                               results.pdf)
                 ELSE batch.archive
           a2 == IF Truthy(results.docx)
                 THEN writestr(a1, EntryName(batch.mode, name, <<"docx">>), i, results.docx)
                 ELSE a1
           a3 == writestr(a2, EntryName(batch.mode, name, <<"log", "txt">>), i, "log")
       IN  batch' = [batch EXCEPT !.archive = a3, !.idx = i + 1,
                                  !.res = Append(@, [pdf |-> results.pdf,
                                                     docx |-> results.docx])]
    /\ ForgetCall
    /\ UNCHANGED <<config, ui, fs, extractVars>>

\* compile_latex raised: the exception leaves the loop and the with block,
\* which closes the archive; nothing is returned or offered for download.
BatchAbort ==
    /\ ui = "batch"
    /\ cpc = "raised"
    /\ batch' = [batch EXCEPT !.zout = "closed", !.outcome = "raised"]
    /\ ui' = "done"
    /\ ForgetCall
    /\ UNCHANGED <<config, fs, extractVars>>

\* The loop is through: the archive is closed and returned.
BatchFinish ==
    /\ ui = "batch"
    /\ cpc = "none"
    /\ batch.idx > Len(batch.docs)
    /\ batch' = [batch EXCEPT !.zout = "closed", !.outcome = "returned"]
    /\ ui' = "done"
    /\ UNCHANGED <<config, callVars, fs, extractVars>>

\* The script run is over.
BatchReset ==
    /\ ui = "done"
    /\ ui' = "idle"
    /\ batch' = NoBatch
    /\ UNCHANGED <<config, callVars, fs, extractVars>>

\* ---------------------------------------------------- extract_latex_error

InitExtract ==
    /\ config = DefaultConfig
    /\ ui = "idle"
    /\ NoCall
    /\ fs = {}
    /\ batch = NoBatch
    /\ log_text \in LogTexts
    /\ summary = <<>>

Summarize ==
    /\ summary = <<>>
    /\ summary' = extract_latex_error(log_text)
    /\ UNCHANGED <<config, ui, callVars, fs, batch, log_text>>

\* --------------------------------------------------------- specifications

\* Single conversions and configuration edits (tabs 1 and 3).
Next ==
    \/ ConfigEdit
    \/ ConvertClick
    \/ CompileWrite
    \/ CompilePdf
    \/ CompileDocx
    \/ CompileReturn
    \/ ShowResult

Spec == Init /\ [][Next]_vars

\* Batch conversions: the upload loop and convert_directory.
NextBatch ==
    \/ StartUpload
    \/ StartDirectory
    \/ BatchCompile
    \/ CompileWrite
    \/ CompilePdf
    \/ CompileDocx
    \/ CompileReturn
    \/ BatchStore
    \/ BatchAbort
    \/ BatchFinish
    \/ BatchReset

SpecBatch == Init /\ [][NextBatch]_vars

\* extract_latex_error over every log text of the bounded alphabet.
NextExtract == Summarize

SpecExtract == InitExtract /\ [][NextExtract]_vars

\* ----------------------------------------------------------------- claims

CallEnded == cpc \in {"returned", "raised"}

BatchEnded == ui = "done"

\* The archive entries document i wrote under the given suffix.
EntriesOf(i, suffix) ==
    {k \in DOMAIN batch.archive :
        /\ batch.archive[k].doc = i
        /\ batch.archive[k].name = EntryName(batch.mode, batch.docs[i], suffix)}

\* C1: a batch over N >= 1 documents runs to its last document whatever
\* fails on the way, and the closed archive holds exactly one log entry per
\* document, a .pdf entry exactly for the documents whose result has the
\* PDF field present, and a .docx entry exactly for those with the DOCX
\* field present.
C1_BatchTolerant ==
    (BatchEnded /\ batch.docs # <<>>) =>
        /\ batch.outcome = "returned"
        /\ batch.zout = "closed"
        /\ Len(batch.res) = Len(batch.docs)
        /\ \A i \in 1..Len(batch.docs) :
              /\ Cardinality(EntriesOf(i, <<"log", "txt">>)) = 1
              /\ EntriesOf(i, <<"pdf">>) # {} <=> batch.res[i].pdf # "None"
              /\ EntriesOf(i, <<"docx">>) # {} <=> batch.res[i].docx # "None"

\* What is left of C1 in the code: a batch that returns holds one log entry
\* per document, and a .pdf (.docx) entry exactly for the documents whose
\* PDF (DOCX) field holds at least one byte.
C1_OnReturn ==
    (BatchEnded /\ batch.outcome = "returned") =>
        /\ Len(batch.res) = Len(batch.docs)
        /\ \A i \in 1..Len(batch.docs) :
              /\ Cardinality(EntriesOf(i, <<"log", "txt">>)) = 1
              /\ EntriesOf(i, <<"pdf">>) # {} <=> batch.res[i].pdf = "data"
              /\ EntriesOf(i, <<"docx">>) # {} <=> batch.res[i].docx = "data"

\* C2: compile_latex never raises to its caller, whatever the scratch-file
\* write, the two tool runs and the output-file reads do.
C2_NeverRaises == cpc # "raised"

\* The lines of a text: where each starts, which begin with "! ", where
\* each ends.
LineStarts(text) == {i \in 1..Len(text) : i = 1 \/ text[i - 1] = NL}

BangLines(text) ==
    {i \in LineStarts(text) : i + 1 <= Len(text) /\ text[i] = "!" /\ text[i + 1] = " "}

LineEnd(text, i) == Min({k \in i..Len(text) : text[k] = NL} \cup {Len(text) + 1})

FirstBangLineRest(text) ==
    LET i == Min(BangLines(text)) IN SubSeq(text, i + 2, LineEnd(text, i) - 1)

\* C3: extract_latex_error is first-match-wins over the lines that begin
\* with "! ": it returns the error string with the rest of the first such
\* line, up to its line break, and the fixed "no critical error found"
\* string when no line begins with "! ".
C3_FirstBangLine ==
    summary # <<>> =>
        summary = IF BangLines(log_text) # {}
                  THEN ErrorPrefix \o FirstBangLineRest(log_text)
                  ELSE NoErrorFound

\* C4: when a compile_latex call has returned or raised, its scratch
\* directory and every file written into it are gone, and no file was
\* written outside it.
C4_ScratchRemoved == CallEnded => (~tmp /\ fs = {})

\* C5: the archive never holds two entries of the same name.
C5_UniqueEntryNames ==
    \A i, j \in DOMAIN batch.archive :
        i # j => batch.archive[i].name # batch.archive[j].name

C7_RunCommandTotal ==
    /\ exc # "run"
    /\ \A i \in DOMAIN ran :
          LET p == ran[i].proc
              r == ran[i].res
          IN  /\ ~r.raised
              /\ r.ok <=> (p.kind = "exit" /\ p.code = 0)
              /\ p.kind = "timeout" =>
                    (~r.ok /\ r.out = <<>> /\ r.err = TimeoutNotice)
              /\ p.kind = "oserror" =>
                    (~r.ok /\ r.out = <<>> /\ r.err = ExceptionNotice(p.e))

\* A call whose first run timed out and whose second could not be launched.
C7_Witness ==
    /\ cpc = "returned"
    /\ Len(ran) = 2
    /\ ran[1].proc.kind = "timeout"
    /\ ran[2].proc.kind = "oserror"

\* C8 as stated: a call reads the configuration once, at invocation start:
\* every session key it reads, it reads before any tool has run.
C8_ReadAtStart == \A i \in DOMAIN cfgReads : cfgReads[i].runsBefore = 0

\* C8 as amended: a call reads the typesetting path and flags when the
\* typesetting phase starts and the conversion path when the conversion
\* phase starts, after the typesetting run if there is one; the
\* configuration is not written while a call is in flight, by the call or
\* by the configuration tab, so every command is built from the values the
\* configuration held when the call began.
C8_ReadPerPhase ==
    /\ cpc # "none" => config = cfgAtStart
    /\ \A i \in DOMAIN ran :
          LET cmd == ran[i].cmd
          IN  IF ran[i].tool = "pdflatex"
              THEN /\ cmd[1] = cfgAtStart.miktex_path
                   /\ SubSeq(cmd, 2, Len(cmd) - 1) = split(cfgAtStart.pdflatex_flags)
              ELSE cmd[1] = cfgAtStart.pandoc_path
    /\ \A i \in DOMAIN cfgReads :
          cfgReads[i].runsBefore =
              IF cfgReads[i].key = "pandoc_path" /\ make_pdf THEN 1 ELSE 0

\* A call with both phases, made after all three settings were edited.
C8_Witness ==
    /\ cpc = "returned"
    /\ Len(ran) = 2
    /\ config.miktex_path # DefaultConfig.miktex_path
    /\ config.pandoc_path # DefaultConfig.pandoc_path
    /\ config.pdflatex_flags # DefaultConfig.pdflatex_flags
    /\ \E i \in DOMAIN cfgReads :
          cfgReads[i].key = "pandoc_path" /\ cfgReads[i].runsBefore = 1

\* The typesetting phase of this call is through (make_pdf was true).
PdfPhaseDone == Len(ran) >= 1 /\ ran[1].tool = "pdflatex"

\* C9 as stated: with make_pdf, the PDF field is filled exactly when the run
\* succeeded and the .pdf file exists, and the error summary is set exactly
\* when the run did not succeed.
C9_SummaryIffRunFailed ==
    PdfPhaseDone =>
        /\ results.pdf # "None" <=> (ran[1].res.ok /\ ran[1].exists)
        /\ results.error_summary # <<>> <=> ~ran[1].res.ok

\* C9 as amended: with make_pdf, the PDF field is filled exactly when the
\* run succeeded, the .pdf file exists and reading it did not fail, and the
\* error summary is set, to extract_latex_error of stdout followed by
\* stderr, exactly when the run did not succeed or the file does not exist.
C9_SummaryIffNoPdf ==
    PdfPhaseDone =>
        /\ results.pdf # "None" <=>
              (ran[1].res.ok /\ ran[1].exists /\ ran[1].readable)
        /\ results.error_summary # <<>> <=> ~(ran[1].res.ok /\ ran[1].exists)
        /\ results.error_summary # <<>> =>
              results.error_summary =
                  extract_latex_error(ran[1].res.out \o ran[1].res.err)

\* The run succeeded, left no .pdf, and the summary was set all the same.
C9_Witness ==
    /\ cpc = "returned"
    /\ PdfPhaseDone
    /\ ran[1].res.ok
    /\ ~ran[1].exists
    /\ results.pdf = "None"
    /\ results.error_summary = NoErrorFound

\* The labelled log blocks of a sequence of runs.
RECURSIVE BlocksOf(_)
BlocksOf(runs) ==
    IF runs = <<>> THEN <<>>
    ELSE LET last == runs[Len(runs)]
         IN  BlocksOf(SubSeq(runs, 1, Len(runs) - 1))
             \o LogBlock(IF last.tool = "pdflatex" THEN "--- pdflatex log ---"
                         ELSE "--- pandoc log ---",
                         last.res.out, last.res.err)

\* C10: the typesetting tool is run exactly when make_pdf and the conversion
\* tool exactly when make_docx, whatever the typesetting phase came to,
\* typesetting first; the log is one labelled block per phase in that
\* order, and with both flags false it is empty and both fields are absent.
C10_PhasesIndependent ==
    CallEnded =>
        /\ [i \in DOMAIN ran |-> ran[i].tool] =
              (IF make_pdf THEN <<"pdflatex">> ELSE <<>>)
              \o (IF make_docx THEN <<"pandoc">> ELSE <<>>)
        /\ results.log = BlocksOf(ran)
        /\ (~make_pdf /\ ~make_docx) =>
              (results.log = <<>> /\ results.pdf = "None" /\ results.docx = "None")

\* What is left of C10 in the code: the same, for the calls that return.
C10_OnReturn ==
    cpc = "returned" =>
        /\ [i \in DOMAIN ran |-> ran[i].tool] =
              (IF make_pdf THEN <<"pdflatex">> ELSE <<>>)
              \o (IF make_docx THEN <<"pandoc">> ELSE <<>>)
        /\ results.log = BlocksOf(ran)
        /\ (~make_pdf /\ ~make_docx) =>
              (results.log = <<>> /\ results.pdf = "None" /\ results.docx = "None")

=============================================================================
